---- MODULE Spec2Model ----
(***************************************************************************)
(* State-machine model of HaContinuousCastingDashboard                      *)
(* (custom_components/ha_continuous_casting_dashboard/dashboard_caster.py). *)
(*                                                                          *)
(* The coroutine start() is modelled step by step: one action per           *)
(* suspension point or branch of its control flow.  The external            *)
(* collaborator (the `catt` command line tool) is the environment: every    *)
(* invocation may fail to start, return with any exit status and output,    *)
(* or not return in time.                                                   *)
(***************************************************************************)
EXTENDS Integers, Sequences, FiniteSets, TLC

\* ---------------------------------------------------------------- bounds
NumDevices == 2
MaxOrphans == 1

\* ------------------------------------------------------- program constants
max_retries == 5
retry_delay == 30
InvokeTimeout == 10
NoTimeout == 0
ConfigCastDelay == 300

\* A time of day, in seconds since midnight (datetime.time compares
\* lexicographically on hour, minute, second).
T(h, m, s) == h * 3600 + m * 60 + s

\* datetime.strptime(text, '%H:%M').time(): the text is a pair <<HH, MM>>.
ParseHM(hm) == T(hm[1], hm[2], 0)

\* The configured windows (start_time, end_time) the model is started with.
ConfigWindows ==
    { << <<8, 0>>, <<20, 0>> >>,
      << <<22, 0>>, <<6, 0>> >> }

\* The readings datetime.now().time() may give at the top of a cycle.
NowTimes == { T(7, 0, 0), T(10, 0, 0), T(21, 0, 0), T(23, 30, 0), T(23, 59, 30) }

\* The devices of config['devices'], in insertion order.
Devices == 1 .. NumDevices

\* The device tables config['devices'] may hold, each as the sequence of its
\* keys in insertion order: no device at all, or NumDevices devices.
ConfigDeviceTables == { << >>, [i \in 1 .. NumDevices |-> i] }

\* config['devices'][d]: device 1 has no "dashboard_state_name" key.
ConfigDevice(d) ==
    IF d = 1 THEN [dashboard_url |-> 100 + d, has_state_name |-> FALSE, dashboard_state_name |-> ""]
             ELSE [dashboard_url |-> 100 + d, has_state_name |-> TRUE, dashboard_state_name |-> "Kiosk"]

\* self.device_map as built by __init__ (device_info.get(..., "Dummy")).
device_map ==
    [d \in Devices |->
        [dashboard_url |-> ConfigDevice(d).dashboard_url,
         dashboard_state_name |->
            IF ConfigDevice(d).has_state_name
                THEN ConfigDevice(d).dashboard_state_name
                ELSE "Dummy"]]

\* ---------------------------------------------------------- logging level
\* The config without a "logging_level" key.
Absent == "<absent>"

\* The values config["logging_level"] may hold.
ConfigLogLevels == { Absent, "Warning", "verbose", "" }

\* config.get("logging_level", "info")
ConfigLogLevel(cfg) == IF cfg = Absent THEN "info" ELSE cfg

\* str.upper() left out.
Upper_Missing(text) == text

\* str.upper() on the level names.
Upper(text) ==
    CASE text = "info" -> "INFO"
      [] text = "Warning" -> "WARNING"
      [] text = "verbose" -> "VERBOSE"
      [] OTHER -> text

\* The value of getattr(..., None) when the attribute is missing.
NoLevel == -1

\* getattr(logging, name, None): the integer attributes of the logging module.
LoggingAttr(name) ==
    CASE name \in {"CRITICAL", "FATAL"} -> 50
      [] name = "ERROR" -> 40
      [] name \in {"WARNING", "WARN"} -> 30
      [] name = "INFO" -> 20
      [] name = "DEBUG" -> 10
      [] name = "NOTSET" -> 0
      [] OTHER -> NoLevel

\* numeric_log_level of __init__ (lines 29-30).
numeric_log_level(cfg) == LoggingAttr(Upper(ConfigLogLevel(cfg)))

\* isinstance(numeric_log_level, int)
IsInt(v) == v # NoLevel

\* The class-level attributes of lines 104-106.
ClassDefaults == [max_retries |-> 5, retry_delay |-> 30, retry_count |-> 0]

\* ----------------------------------------------------------- python values
\* The value check_status returns: None, or the decoded text.  A text is the
\* set of tokens that occur in it; the empty text is the empty set.
NoneRet == [tag |-> "None", toks |-> {}]
Str(toks) == [tag |-> "str", toks |-> toks]

\* The outputs the collaborator's status operation may write to stdout.
StatusTexts == { {}, {"IDLE"}, {"Dummy"}, {"Kiosk"}, {"PLAYING"} }

\* What a finished status process hands back: exit status, and stdout that
\* either decodes to a text or does not decode.
StatusResults ==
    [rc : {0}, decodes : {TRUE}, toks : StatusTexts]
        \cup { [rc |-> 1, decodes |-> TRUE, toks |-> {}],
               [rc |-> 0, decodes |-> FALSE, toks |-> {}] }

\* Python truthiness of a check_status return value.
Truthy(v) == v.tag = "str" /\ v.toks # {}

\* `token in status_output`
Contains(v, token) == token \in v.toks

\* check_both_states returning None, not False, at line 67.
check_both_states_NoneOnFalsy(d, status_output) ==
    IF status_output.tag = "None" \/ ~Truthy(status_output)
        THEN "None"
        ELSE IF Contains(status_output, device_map[d].dashboard_state_name)
                  \/ Contains(status_output, "PLAYING")
                THEN "True"
                ELSE "False"

\* check_both_states, given what check_status returned: "True" or "False"
\* (a Python value, so that it can be compared with None).
check_both_states(d, status_output) ==
    IF status_output.tag = "None" \/ ~Truthy(status_output)
        THEN "False"
        ELSE IF Contains(status_output, device_map[d].dashboard_state_name)
                  \/ Contains(status_output, "PLAYING")
                THEN "True"
                ELSE "False"

\* The in-window condition of start().
InWindow(st, en, t) ==
    \/ (st <= t /\ t <= ParseHM(<<23, 59>>))
    \/ (ParseHM(<<0, 0>>) <= t /\ t < en)

\* cast_dashboard muting before it stops the current playback.
CastCommand_StopSecond(k, d) ==
    CASE k = 1 -> [op |-> "volume", arg |-> 0]
      [] k = 2 -> [op |-> "stop", arg |-> 0]
      [] k = 3 -> [op |-> "cast_site", arg |-> device_map[d].dashboard_url]
      [] k = 4 -> [op |-> "volume", arg |-> 50]

\* cast_dashboard with the two volume commands exchanged.
CastCommand_VolumeSwapped(k, d) ==
    CASE k = 1 -> [op |-> "stop", arg |-> 0]
      [] k = 2 -> [op |-> "volume", arg |-> 50]
      [] k = 3 -> [op |-> "cast_site", arg |-> device_map[d].dashboard_url]
      [] k = 4 -> [op |-> "volume", arg |-> 0]

\* The commands of cast_dashboard, in program order: operation and argument.
CastCommand(k, d) ==
    CASE k = 1 -> [op |-> "stop", arg |-> 0]
      [] k = 2 -> [op |-> "volume", arg |-> 0]
      [] k = 3 -> [op |-> "cast_site", arg |-> device_map[d].dashboard_url]
      [] k = 4 -> [op |-> "volume", arg |-> 50]

CastLength == 4

\* The retry loop without the `break` of line 124 after a cast: control
\* returns to the loop condition.
AfterBranch_NoBreakAfterCast(kind) == IF kind = "cast" THEN "in_while" ELSE "break"

\* Where control goes once the branch at line 119-123 is done: `break`
\* leaves the retry loop for the pause of line 128.
AfterBranch(kind) == "break"

\* ------------------------------------------------------------------ state
VARIABLES
    device_keys,            \* keys of self.device_map, in iteration order
    logging_level,          \* config["logging_level"], or Absent
    logger_level,           \* level given to _LOGGER.setLevel, NoLevel if none
    cls,                    \* class attributes max_retries, retry_delay, retry_count
    start_time, end_time,   \* self.start_time, self.end_time
    now,                    \* local `now` of start(); -1 before the first cycle
    pc,                     \* position of start()
    idx,                    \* position of the for loop in device_map
    retry_count,            \* local retry_count of start()
    ha_cast_active,         \* local ha_cast_active of start()
    site,                   \* line of the pending check_status call
    step,                   \* command of cast_dashboard being run
    sleepAt,                \* line of the pending asyncio.sleep
    awaited,                \* the collaborator process being awaited
    ret,                    \* value returned by the last check_status
    rc,                     \* exit status of the last finished process
    exc,                    \* exception that left start(), if any
    orphans,                \* processes abandoned by a timeout, still running
    evlog,                  \* events of the current device's evaluation
    branch,                 \* branch the current cycle took
    castsStarted,           \* cast_dashboard calls per device in this cycle
    dashSeen,               \* devices whose status showed their token in this sweep
    sweepSleeps             \* pauses of line 148 in this cycle

\* What __init__ sets up and no line of start() assigns.
fixed == << device_keys, logging_level, logger_level, cls >>

vars == << fixed, start_time, end_time, now, pc, idx, retry_count, ha_cast_active,
           site, step, sleepAt, awaited, ret, rc, exc, orphans, evlog, branch,
           castsStarted, dashSeen, sweepSleeps >>

NoProc == [op |-> "none", arg |-> 0, dev |-> 0, timeout |-> NoTimeout, hung |-> FALSE]

\* One observable event: a status query that returned, a command started,
\* a pause begun, or a log record (arg is the line that logs).
Ev(kind, d, what, arg, r) == [kind |-> kind, dev |-> d, what |-> what, arg |-> arg, ret |-> r]
Log(d, level, line) == Ev("log", d, level, line, NoneRet)

Init ==
    /\ \E w \in ConfigWindows :
          /\ start_time = ParseHM(w[1])
          /\ end_time = ParseHM(w[2])
    /\ device_keys \in ConfigDeviceTables
    /\ logging_level \in ConfigLogLevels
    /\ cls = ClassDefaults
    /\ now = -1
    /\ IF IsInt(numeric_log_level(logging_level))
          THEN /\ logger_level = numeric_log_level(logging_level)
               /\ pc = "loop"
               /\ exc = "none"
          ELSE /\ logger_level = NoLevel
               /\ pc = "rejected"
               /\ exc = "ValueError"
    /\ idx = 0
    /\ retry_count = 0
    /\ ha_cast_active = FALSE
    /\ site = 0
    /\ step = 0
    /\ sleepAt = 0
    /\ awaited = NoProc
    /\ ret = NoneRet
    /\ rc = 0
    /\ orphans = 0
    /\ evlog = << >>
    /\ branch = "none"
    /\ castsStarted = [d \in Devices |-> 0]
    /\ dashSeen = {}
    /\ sweepSleeps = 0

\* self.cast_delay, read from config['cast_delay'] by __init__.
cast_delay == ConfigCastDelay

\* The device self.device_map.items() yields at the loop's position, with
\* the table iterated backwards.
Dev_Reversed == device_keys[Len(device_keys) + 1 - idx]

\* The device self.device_map.items() yields at the loop's position.
Dev == device_keys[idx]

\* asyncio.sleep called with self.retry_delay at every line.
Pause_RetryDelay(line, d, what, dur, log) ==
    /\ pc' = "sleep"
    /\ sleepAt' = line
    /\ evlog' = Append(log, Ev("sleep", d, "retry_delay", retry_delay, NoneRet))

\* `await asyncio.sleep(...)` at the given line: the pause is logged as an
\* event and start() is suspended until Wake.
Pause(line, d, what, dur, log) ==
    /\ pc' = "sleep"
    /\ sleepAt' = line
    /\ evlog' = Append(log, Ev("sleep", d, what, dur, NoneRet))

\* An exception nobody catches leaves start(): the loop is over.
Raise(e) ==
    /\ pc' = "exited"
    /\ exc' = e

\* Leaving the branch of lines 119-123 (see AfterBranch).
LeaveBranch(kind, log) ==
    IF AfterBranch(kind) = "break"
        THEN Pause(128, Dev, "cast_delay", cast_delay, log)
        ELSE /\ pc' = "in_while"
             /\ sleepAt' = sleepAt
             /\ evlog' = log

\* Whether a started process may fail to return in time.
HungChoices == IF orphans < MaxOrphans THEN BOOLEAN ELSE {FALSE}

\* Lines 108-110 (and 130-131): read the clock, take the window decision.
WindowCheck ==
    /\ pc = "loop"
    /\ \E t \in NowTimes :
          /\ now' = t
          /\ IF InWindow(start_time, end_time, t)
                THEN /\ branch' = "inside"
                     /\ pc' = "in_for"
                     /\ evlog' = << >>
                     /\ UNCHANGED ha_cast_active
                ELSE /\ branch' = "outside"
                     /\ pc' = "out_for"
                     /\ evlog' = << Log(0, "info", 130) >>
                     /\ ha_cast_active' = FALSE
    /\ idx' = 1
    /\ castsStarted' = [d \in Devices |-> 0]
    /\ dashSeen' = {}
    /\ sweepSleeps' = 0
    /\ UNCHANGED << fixed, start_time, end_time, retry_count, site, step, sleepAt,
                    awaited, ret, rc, exc, orphans >>

\* Lines 111-112: next device of the inside-window loop, or end of the cycle.
InFor ==
    /\ pc = "in_for"
    /\ IF idx > Len(device_keys)
          THEN /\ pc' = "loop"
               /\ UNCHANGED << retry_count, evlog >>
          ELSE /\ retry_count' = 0
               /\ evlog' = << >>
               /\ pc' = "in_while"
    /\ UNCHANGED << fixed, start_time, end_time, now, idx, ha_cast_active, site, step,
                    sleepAt, awaited, ret, rc, exc, orphans, branch,
                    castsStarted, dashSeen, sweepSleeps >>

\* Lines 113-114 and 125-127: the retry loop's condition.
InWhile ==
    /\ pc = "in_while"
    /\ IF retry_count < max_retries
          THEN /\ site' = 114
               /\ pc' = "status_spawn"
               /\ UNCHANGED << idx, evlog >>
          ELSE /\ evlog' = Append(evlog, Log(Dev, "error", 126))
               /\ idx' = idx + 1
               /\ pc' = "in_for"
               /\ UNCHANGED site
    /\ UNCHANGED << fixed, start_time, end_time, now, retry_count, ha_cast_active, step,
                    sleepAt, awaited, ret, rc, exc, orphans, branch,
                    castsStarted, dashSeen, sweepSleeps >>

\* Line 38: create_subprocess_exec("catt", "-d", device, "status").  A
\* ValueError is caught at line 48; an OSError is caught nowhere.
StatusSpawn ==
    /\ pc = "status_spawn"
    /\ \E r \in {"started", "OSError", "ValueError"}, h \in HungChoices :
          CASE r = "started" ->
                  /\ awaited' = [op |-> "status", arg |-> 0, dev |-> Dev,
                                 timeout |-> InvokeTimeout, hung |-> h]
                  /\ pc' = "status_wait"
                  /\ UNCHANGED << ret, exc, evlog >>
            [] r = "OSError" ->
                  /\ Raise("OSError")
                  /\ UNCHANGED << awaited, ret, evlog >>
            [] r = "ValueError" ->
                  /\ ret' = NoneRet
                  /\ evlog' = evlog \o << Log(Dev, "error", 49),
                                          Ev("query", Dev, "status", site, NoneRet) >>
                  /\ pc' = "status_ret"
                  /\ UNCHANGED << awaited, exc >>
    /\ UNCHANGED << fixed, start_time, end_time, now, idx, retry_count, ha_cast_active,
                    site, step, sleepAt, rc, orphans, branch, castsStarted,
                    dashSeen, sweepSleeps >>

\* Lines 39-41 (and 48-50): communicate() returned within the timeout; the
\* exit status is not looked at, stdout is decoded.
StatusComplete ==
    /\ pc = "status_wait"
    /\ ~awaited.hung
    /\ \E res \in StatusResults :
          /\ rc' = res.rc
          /\ IF res.decodes
                THEN /\ ret' = Str(res.toks)
                     /\ evlog' = Append(evlog, Ev("query", Dev, "status", site, Str(res.toks)))
                ELSE /\ ret' = NoneRet
                     /\ evlog' = evlog \o << Log(Dev, "error", 49),
                                             Ev("query", Dev, "status", site, NoneRet) >>
    /\ awaited' = NoProc
    /\ pc' = "status_ret"
    /\ UNCHANGED << fixed, start_time, end_time, now, idx, retry_count, ha_cast_active,
                    site, step, sleepAt, exc, orphans, branch, castsStarted,
                    dashSeen, sweepSleeps >>

\* Line 39: wait_for gives up after 10 and raises asyncio.TimeoutError,
\* which is not subprocess.TimeoutExpired (line 45): nothing catches it.
\* The process is not terminated.
StatusTimeout ==
    /\ pc = "status_wait"
    /\ awaited.hung
    /\ awaited.timeout # NoTimeout
    /\ Raise("TimeoutError")
    /\ orphans' = orphans + 1
    /\ awaited' = NoProc
    /\ UNCHANGED << fixed, start_time, end_time, now, idx, retry_count, ha_cast_active,
                    site, step, sleepAt, ret, rc, evlog, branch, castsStarted,
                    dashSeen, sweepSleeps >>

\* Lines 114-118: the first check_both_states of an attempt, compared with None.
FirstCheck ==
    /\ pc = "status_ret"
    /\ site = 114
    /\ IF check_both_states(Dev, ret) = "None"
          THEN /\ retry_count' = retry_count + 1
               /\ Pause(117, Dev, "retry_delay", retry_delay,
                        Append(evlog, Log(Dev, "warning", 116)))
               /\ UNCHANGED site
          ELSE /\ site' = 119
               /\ pc' = "status_spawn"
               /\ UNCHANGED << retry_count, sleepAt, evlog >>
    /\ UNCHANGED << fixed, start_time, end_time, now, idx, ha_cast_active, step, awaited,
                    ret, rc, exc, orphans, branch, castsStarted, dashSeen,
                    sweepSleeps >>

\* Lines 119-124 (and 79): the second check_both_states of the attempt decides.
SecondCheck ==
    /\ pc = "status_ret"
    /\ site = 119
    /\ IF check_both_states(Dev, ret) = "True"
          THEN /\ LeaveBranch("active", Append(evlog, Log(Dev, "info", 120)))
               /\ UNCHANGED << step, castsStarted >>
          ELSE /\ evlog' = evlog \o << Log(Dev, "info", 122), Log(Dev, "info", 79) >>
               /\ castsStarted' = [castsStarted EXCEPT ![Dev] = @ + 1]
               /\ step' = 1
               /\ pc' = "cast_spawn"
               /\ UNCHANGED sleepAt
    /\ UNCHANGED << fixed, start_time, end_time, now, idx, retry_count, ha_cast_active,
                    site, awaited, ret, rc, exc, orphans, branch, dashSeen,
                    sweepSleeps >>

\* Lines 81, 84, 87, 90: start the next command of cast_dashboard.  A
\* ValueError is caught at line 95; an OSError is caught nowhere.
CastSpawn ==
    /\ pc = "cast_spawn"
    /\ \E r \in {"started", "OSError", "ValueError"}, h \in HungChoices :
          CASE r = "started" ->
                  /\ awaited' = [op |-> CastCommand(step, Dev).op,
                                 arg |-> CastCommand(step, Dev).arg, dev |-> Dev,
                                 timeout |-> InvokeTimeout, hung |-> h]
                  /\ evlog' = Append(evlog, Ev("cmd", Dev, CastCommand(step, Dev).op,
                                               CastCommand(step, Dev).arg, NoneRet))
                  /\ pc' = "cast_wait"
                  /\ UNCHANGED << exc, sleepAt >>
            [] r = "OSError" ->
                  /\ Raise("OSError")
                  /\ UNCHANGED << awaited, evlog, sleepAt >>
            [] r = "ValueError" ->
                  /\ LeaveBranch("cast", Append(evlog, Log(Dev, "error", 96)))
                  /\ UNCHANGED << awaited, exc >>
    /\ UNCHANGED << fixed, start_time, end_time, now, idx, retry_count, ha_cast_active,
                    site, step, ret, rc, orphans, branch, castsStarted, dashSeen,
                    sweepSleeps >>

\* Lines 82, 85, 88, 91: process.wait() returned within the timeout; the
\* exit status is not looked at.
CastComplete ==
    /\ pc = "cast_wait"
    /\ ~awaited.hung
    /\ \E c \in {0, 1} : rc' = c
    /\ awaited' = NoProc
    /\ IF step < CastLength
          THEN /\ step' = step + 1
               /\ pc' = "cast_spawn"
               /\ UNCHANGED << sleepAt, evlog >>
          ELSE /\ LeaveBranch("cast", evlog)
               /\ UNCHANGED step
    /\ UNCHANGED << fixed, start_time, end_time, now, idx, retry_count, ha_cast_active,
                    site, ret, exc, orphans, branch, castsStarted, dashSeen,
                    sweepSleeps >>

\* Lines 98-100: wait_for gave up; cast_dashboard logs and returns.  The
\* process is not terminated.
CastTimeout ==
    /\ pc = "cast_wait"
    /\ awaited.hung
    /\ awaited.timeout # NoTimeout
    /\ orphans' = orphans + 1
    /\ awaited' = NoProc
    /\ LeaveBranch("cast", Append(evlog, Log(Dev, "error", 99)))
    /\ UNCHANGED << fixed, start_time, end_time, now, idx, retry_count, ha_cast_active,
                    site, step, ret, rc, exc, branch, castsStarted, dashSeen,
                    sweepSleeps >>

\* Lines 132-133 and 146-148: next device of the outside-window sweep, or
\* the end of the sweep.
OutFor ==
    /\ pc = "out_for"
    /\ IF idx > Len(device_keys)
          THEN /\ IF ~ha_cast_active
                     THEN /\ Pause(148, 0, "cast_delay", cast_delay,
                                   << Log(0, "info", 147) >>)
                          /\ sweepSleeps' = sweepSleeps + 1
                     ELSE /\ pc' = "loop"
                          /\ UNCHANGED << sleepAt, evlog, sweepSleeps >>
               /\ UNCHANGED site
          ELSE /\ site' = 133
               /\ evlog' = << >>
               /\ pc' = "status_spawn"
               /\ UNCHANGED << sleepAt, sweepSleeps >>
    /\ UNCHANGED << fixed, start_time, end_time, now, idx, retry_count, ha_cast_active,
                    step, awaited, ret, rc, exc, orphans, branch, castsStarted,
                    dashSeen >>

\* Lines 133-134 and 142-144: the truth value of the raw status text decides.
OutCheck ==
    /\ pc = "status_ret"
    /\ site = 133
    /\ dashSeen' = IF Contains(ret, device_map[Dev].dashboard_state_name)
                      THEN dashSeen \cup {Dev} ELSE dashSeen
    /\ IF Truthy(ret)
          THEN /\ evlog' = Append(evlog, Log(Dev, "info", 134))
               /\ pc' = "stop_spawn"
               /\ UNCHANGED idx
          ELSE /\ evlog' = Append(evlog, Log(Dev, "info", 143))
               /\ idx' = idx + 1
               /\ pc' = "out_for"
    /\ UNCHANGED << fixed, start_time, end_time, now, retry_count, ha_cast_active, site,
                    step, sleepAt, awaited, ret, rc, exc, orphans, branch,
                    castsStarted, sweepSleeps >>

\* Line 136: start the stop command.  Only subprocess.CalledProcessError is
\* caught here (line 139), and create_subprocess_exec never raises it.
StopSpawn ==
    /\ pc = "stop_spawn"
    /\ \E r \in {"started", "OSError", "ValueError"}, h \in BOOLEAN :
          IF r = "started"
             THEN /\ awaited' = [op |-> "stop", arg |-> 0, dev |-> Dev,
                                 timeout |-> NoTimeout, hung |-> h]
                  /\ evlog' = Append(evlog, Ev("cmd", Dev, "stop", 0, NoneRet))
                  /\ pc' = "stop_wait"
                  /\ UNCHANGED exc
             ELSE /\ Raise(r)
                  /\ UNCHANGED << awaited, evlog >>
    /\ UNCHANGED << fixed, start_time, end_time, now, idx, retry_count, ha_cast_active,
                    site, step, sleepAt, ret, rc, orphans, branch, castsStarted,
                    dashSeen, sweepSleeps >>

\* Lines 137-138 and 145: process.wait() returned (there is no timeout here).
StopComplete ==
    /\ pc = "stop_wait"
    /\ ~awaited.hung
    /\ \E c \in {0, 1} : rc' = c
    /\ awaited' = NoProc
    /\ ha_cast_active' = TRUE
    /\ Pause(145, Dev, "cast_delay", cast_delay, evlog)
    /\ UNCHANGED << fixed, start_time, end_time, now, idx, retry_count, site, step, ret,
                    exc, orphans, branch, castsStarted, dashSeen, sweepSleeps >>

\* The end of an asyncio.sleep: start() resumes after the line that slept.
Wake ==
    /\ pc = "sleep"
    /\ CASE sleepAt = 117 -> pc' = "in_while" /\ UNCHANGED idx
         [] sleepAt = 128 -> pc' = "in_for" /\ idx' = idx + 1
         [] sleepAt = 145 -> pc' = "out_for" /\ idx' = idx + 1
         [] sleepAt = 148 -> pc' = "loop" /\ UNCHANGED idx
    /\ UNCHANGED << fixed, start_time, end_time, now, retry_count, ha_cast_active, site,
                    step, sleepAt, awaited, ret, rc, exc, orphans, evlog, branch,
                    castsStarted, dashSeen, sweepSleeps >>

\* A process abandoned by a timeout ends by itself.
OrphanExit ==
    /\ orphans > 0
    /\ orphans' = orphans - 1
    /\ UNCHANGED << fixed, start_time, end_time, now, pc, idx, retry_count,
                    ha_cast_active, site, step, sleepAt, awaited, ret, rc, exc,
                    evlog, branch, castsStarted, dashSeen, sweepSleeps >>

Next ==
    \/ WindowCheck
    \/ InFor
    \/ InWhile
    \/ StatusSpawn
    \/ StatusComplete
    \/ StatusTimeout
    \/ FirstCheck
    \/ SecondCheck
    \/ CastSpawn
    \/ CastComplete
    \/ CastTimeout
    \/ OutFor
    \/ OutCheck
    \/ StopSpawn
    \/ StopComplete
    \/ Wake
    \/ OrphanExit

Spec == Init /\ [][Next]_vars

\* ================================================================ claims
\* Readings of the event log of the device evaluation in progress (or, at
\* the head of the for loop, of the evaluation just finished).
Queries == SelectSeq(evlog, LAMBDA e : e.kind = "query")
Cmds == SelectSeq(evlog, LAMBDA e : e.kind = "cmd")
RetryPauses == SelectSeq(evlog, LAMBDA e : e.kind = "sleep" /\ e.what = "retry_delay")
CastPauses == SelectSeq(evlog, LAMBDA e : e.kind = "sleep" /\ e.what = "cast_delay")
HasLog(level, line) == \E i \in 1 .. Len(evlog) : evlog[i] = Log(evlog[i].dev, level, line)
IndexOf(kind, n) ==
    CHOOSE i \in 1 .. Len(evlog) :
        /\ evlog[i].kind = kind
        /\ Cardinality({j \in 1 .. i : evlog[j].kind = kind}) = n

\* The device whose evaluation evlog describes.
EvalPos == IF pc \in {"in_for", "out_for", "loop"} THEN idx - 1 ELSE idx
EvalDev == IF EvalPos \in 1 .. Len(device_keys) THEN device_keys[EvalPos] ELSE 0

\* An inside-window evaluation has reached its end.
InsideEvalDone ==
    /\ branch = "inside"
    /\ \/ pc = "sleep" /\ sleepAt = 128
       \/ pc = "in_for" /\ idx > 1

\* An outside-window evaluation has reached its end.
OutsideEvalDone == branch = "outside" /\ pc = "out_for" /\ idx > 1

\* What a query result says about a device, as the specification reads it.
Unknown(r) == r.tag = "None"
DashboardActive(d, r) == r.tag = "str" /\ device_map[d].dashboard_state_name \in r.toks
CombinedActive(d, r) == DashboardActive(d, r) \/ (r.tag = "str" /\ "PLAYING" \in r.toks)

\* The interval a window (start, end) denotes, wrapping past midnight when
\* start is later than end.
IntervalPredicate(st, en, t) ==
    IF st > en THEN t >= st \/ t < en ELSE st <= t /\ t < en

\* C1: the in-window decision taken at the top of a cycle equals the interval
\* predicate of (start_time, end_time, now), wrapping past midnight when
\* start_time > end_time.
C1_WindowDecisionIsInterval ==
    branch # "none" =>
        ((branch = "inside") <=> IntervalPredicate(start_time, end_time, now))

\* C2: inside the window a device all of whose status queries returned
\* unknown receives no command, and its evaluation ends only after
\* max_retries queries separated by retry_delay pauses and an error log.
C2_UnknownIsRetriedNeverCast ==
    (/\ branch = "inside"
     /\ Len(Queries) > 0
     /\ \A i \in 1 .. Len(Queries) : Unknown(Queries[i].ret))
    => /\ Len(Cmds) = 0
       /\ (InsideEvalDone =>
             /\ Len(Queries) = max_retries
             /\ Len(RetryPauses) >= max_retries - 1
             /\ HasLog("error", 126))

\* C3: inside the window, a device whose first query returned unknown and
\* whose second returned active ends its evaluation after exactly 2 queries
\* with exactly 1 retry_delay pause between them and no command.
C3_UnknownThenActive ==
    (/\ InsideEvalDone
     /\ Len(Queries) >= 2
     /\ Unknown(Queries[1].ret)
     /\ CombinedActive(EvalDev, Queries[2].ret))
    => /\ Len(Queries) = 2
       /\ Len(RetryPauses) = 1
       /\ IndexOf("query", 1) < IndexOf("sleep", 1)
       /\ IndexOf("sleep", 1) < IndexOf("query", 2)
       /\ Len(Cmds) = 0

\* C4: no failure of a device interaction makes start() exit.
C4_LoopNeverExits == pc # "exited"

\* The cast sequence as specified for device d.
CastSequence(d) ==
    << Ev("cmd", d, "stop", 0, NoneRet),
       Ev("cmd", d, "volume", 0, NoneRet),
       Ev("cmd", d, "cast_site", device_map[d].dashboard_url, NoneRet),
       Ev("cmd", d, "volume", 50, NoneRet) >>

IsPrefix(s, t) == Len(s) <= Len(t) /\ \A i \in 1 .. Len(s) : s[i] = t[i]

\* A cast sequence was started for the device and cast_dashboard is over.
CastEnded == InsideEvalDone /\ HasLog("info", 79)

\* cast_dashboard ended through one of its handlers (lines 95-100).
CastAborted == HasLog("error", 96) \/ HasLog("error", 99)

\* C5 (as stated): whenever a cast sequence has run, exactly the 4 commands
\* stop, volume 0, cast of the URL, volume 50 were issued, in this order.
C5_AlwaysFourCommands ==
    CastEnded => Cmds = CastSequence(EvalDev)

\* C5 (amended): the commands of a cast sequence are issued in the order
\* stop, volume 0, cast of the device's URL, volume 50, each one started only
\* when the previous one has returned; all 4 are issued unless a command
\* times out or cannot be started, and then the sequence ends at that command.
C5_CastSequenceInOrder ==
    (branch = "inside" /\ EvalDev \in Devices) =>
        /\ IsPrefix(Cmds, CastSequence(EvalDev))
        /\ (pc = "cast_spawn" => awaited = NoProc /\ Len(Cmds) = step - 1)
        /\ (pc = "cast_wait" =>
                /\ Len(Cmds) = step
                /\ awaited.dev = EvalDev
                /\ awaited.op = Cmds[step].what
                /\ awaited.arg = Cmds[step].arg)
        /\ (CastEnded /\ ~CastAborted => Cmds = CastSequence(EvalDev))
        /\ (CastEnded /\ CastAborted =>
                /\ evlog[Len(evlog) - 1].what = "error"
                /\ (HasLog("error", 96) => Len(Cmds) < CastLength))

\* C5 witness: after a query that reported inactive, a cast sequence ran to
\* its end and issued the 4 commands, while a process abandoned by an
\* earlier timeout is still running.
C5_Witness ==
    /\ CastEnded
    /\ ~CastAborted
    /\ Len(Queries) = 2
    /\ Queries[2].ret.tag = "str"
    /\ ~CombinedActive(EvalDev, Queries[2].ret)
    /\ Len(Cmds) = 4
    /\ EvalDev = NumDevices
    /\ orphans > 0

\* C6: a command of the cast sequence that exits non-zero ends the sequence:
\* no later command of the sequence is started.
C6_FailedCommandAborts ==
    (branch = "inside" /\ pc = "cast_wait" /\ step > 1) => rc = 0

\* C7: outside the window a device whose status shows its dashboard token
\* gets exactly one stop and one cast_delay pause; any other device gets no
\* command and no pause.
C7_StopOnlyDashboardActive ==
    (OutsideEvalDone /\ Len(Queries) = 1) =>
        IF DashboardActive(EvalDev, Queries[1].ret)
            THEN /\ Cmds = << Ev("cmd", EvalDev, "stop", 0, NoneRet) >>
                 /\ Len(CastPauses) = 1
            ELSE /\ Len(Cmds) = 0
                 /\ Len(CastPauses) = 0

\* C8: an outside-window sweep ends with exactly one cast_delay pause after
\* the sweep if and only if no device of the sweep had its dashboard active.
C8_OneSleepIffNoneActive ==
    (branch = "outside" /\ pc = "loop") =>
        /\ sweepSleeps <= 1
        /\ (sweepSleeps = 1 <=> dashSeen = {})

\* C9: a pending collaborator invocation can always end, by returning or by
\* its timeout: the loop is never left waiting with nothing that can happen.
C9_PendingInvocationCanEnd ==
    awaited # NoProc =>
        ENABLED (StatusComplete \/ StatusTimeout \/ CastComplete
                    \/ CastTimeout \/ StopComplete)

\* The log records that mark the outcome of an inside-window evaluation:
\* confirmed active (120), cast issued (79), skipped after retries (126).
OutcomeLogs ==
    SelectSeq(evlog, LAMBDA e : e.kind = "log" /\ e.arg \in {120, 79, 126})

Resolved ==
    /\ (branch = "inside" => Len(OutcomeLogs) = 1)
    /\ (branch = "outside" => HasLog("info", 134) \/ HasLog("info", 143))

\* C11: devices are evaluated in the order of the device table, in every
\* cycle, and every query, command, pause and log record between the start
\* and the outcome of the evaluation at a position is for the device at that
\* position; the loop moves to the next position only with no invocation
\* pending and the device resolved.
C11_TableOrder ==
    /\ [](/\ idx \in 0 .. Len(device_keys) + 1
          /\ \A i \in 1 .. Len(evlog) : evlog[i].dev \in {0, EvalDev}
          /\ (awaited # NoProc =>
                /\ idx \in 1 .. Len(device_keys)
                /\ awaited.dev = device_keys[idx]))
    /\ [][idx' # idx =>
            \/ pc = "loop" /\ idx' = 1
            \/ /\ idx' = idx + 1
               /\ awaited = NoProc
               /\ Resolved']_vars

\* C11 witness: the last device's cast command is awaited after the first
\* device of the table had its cast in the same cycle.
C11_Witness ==
    /\ branch = "inside"
    /\ pc = "cast_wait"
    /\ idx = NumDevices
    /\ awaited.dev = device_keys[NumDevices]
    /\ castsStarted[device_keys[1]] = 1
    /\ \A i \in 1 .. Len(evlog) : evlog[i].dev = device_keys[NumDevices]

\* The severity names a configuration may give, in the spellings the model
\* draws from; no "logging_level" key means info.
ValidSeverity(cfg) ==
    cfg \in { Absent, "debug", "info", "warning", "error", "critical",
              "Debug", "Info", "Warning", "Error", "Critical",
              "DEBUG", "INFO", "WARNING", "ERROR", "CRITICAL" }

\* C12: a configuration whose logging_level is no severity name is rejected
\* by the constructor with an error and nothing is ever queried, commanded
\* or paused for it; with a valid or absent level construction succeeds.
C12_InvalidLevelRejected ==
    IF ValidSeverity(logging_level)
        THEN /\ pc # "rejected"
             /\ IsInt(logger_level)
             /\ logger_level = IF logging_level = Absent THEN 20 ELSE 30
        ELSE /\ pc = "rejected"
             /\ exc = "ValueError"
             /\ evlog = << >>
             /\ awaited = NoProc
             /\ branch = "none"
             /\ orphans = 0

\* C12 witness: the constructor has rejected the level "verbose".
C12_Witness ==
    /\ logging_level = "verbose"
    /\ pc = "rejected"
    /\ exc = "ValueError"

\* C13: check_status returns the unknown result, and lets no exception
\* escape, when the status process exits non-zero or times out.
C13_StatusFailureIsUnknown ==
    /\ (pc = "status_ret" /\ rc # 0 => Unknown(ret))
    /\ ~(pc = "exited" /\ exc = "TimeoutError")

\* C14: inside the window, a device one of whose queries succeeded and
\* reported the combined state active receives no command in the cycle, and
\* a cast sequence is started only after a successful query that reported
\* inactive.
C14_ActiveMeansNoCommand ==
    branch = "inside" =>
        /\ ((\E i \in 1 .. Len(Queries) : CombinedActive(EvalDev, Queries[i].ret))
                => ~HasLog("info", 79) /\ Len(Cmds) = 0)
        /\ (HasLog("info", 79) =>
                /\ Len(Queries) > 0
                /\ Queries[Len(Queries)].ret.tag = "str"
                /\ ~CombinedActive(EvalDev, Queries[Len(Queries)].ret))

\* C15: no collaborator process is awaited while an earlier one is still
\* running.
C15_OneInvocationAtATime ==
    awaited # NoProc => orphans = 0

\* C16: in an inside-window cycle the evaluation of a device is followed by
\* exactly one cast_delay pause, the last event before the next device.
C16_OnePauseAfterEvaluation ==
    branch = "inside" =>
        /\ Len(CastPauses) <= 1
        /\ (Len(CastPauses) = 1 =>
                /\ evlog[Len(evlog)] = Ev("sleep", EvalDev, "cast_delay", cast_delay, NoneRet)
                /\ pc \in {"sleep", "in_for", "loop"})
        /\ (pc = "in_for" /\ idx > 1 =>
                /\ Len(CastPauses) = 1
                /\ Len(OutcomeLogs) = 1)

\* C16 witness: a device whose cast sequence issued its 4 commands has had
\* its one pause and the loop is at the next device.
C16_Witness ==
    /\ branch = "inside"
    /\ pc = "in_for"
    /\ idx = 2
    /\ HasLog("info", 79)
    /\ Len(Cmds) = CastLength
    /\ Len(CastPauses) = 1

\* C17: retry_count is 0 when a device's evaluation starts, stays within
\* 0 .. max_retries, grows only by one and only on a failed query, is reset
\* only at the start of an evaluation; the class attributes, the device
\* table and the schedule never change.
C17_RetryCounterLocal ==
    /\ [](/\ retry_count \in 0 .. max_retries
          /\ cls = ClassDefaults
          /\ (pc = "in_while" /\ Len(Queries) = 0 => retry_count = 0))
    /\ [][/\ (retry_count' # retry_count =>
                \/ pc = "in_for" /\ retry_count' = 0
                \/ /\ retry_count' = retry_count + 1
                   /\ pc = "status_ret"
                   /\ Unknown(ret))
          /\ cls' = cls
          /\ device_keys' = device_keys
          /\ start_time' = start_time
          /\ end_time' = end_time]_vars

\* C17 witness: the second device's evaluation starts with retry_count 0
\* right after the first device's last query failed.
C17_Witness ==
    /\ branch = "inside"
    /\ pc = "in_while"
    /\ idx = 2
    /\ retry_count = 0
    /\ Len(evlog) = 0
    /\ Unknown(ret)
    /\ castsStarted[device_keys[1]] = 1

\* C18: a cycle that has ended was suspended at least once, in a pause or
\* in a collaborator invocation.
C18_EveryCycleSuspends ==
    (pc = "loop" /\ branch # "none") =>
        \E i \in 1 .. Len(evlog) : evlog[i].kind \in {"sleep", "query", "cmd"}

\* C19: the window decision is taken only at the top of a cycle and holds
\* for the whole cycle: an outside-window cycle issues nothing but stop
\* commands, and an inside-window cycle issues a stop only as the first
\* command of a cast sequence.
C19_DecisionGovernsCycle ==
    /\ [](/\ (branch = "outside" =>
                /\ \A i \in 1 .. Len(Cmds) : Cmds[i].what = "stop"
                /\ awaited.op \in {"none", "status", "stop"}
                /\ \A d \in Devices : castsStarted[d] = 0
                /\ pc \notin {"in_for", "in_while", "cast_spawn", "cast_wait"})
          /\ (branch = "inside" =>
                /\ \A i \in 1 .. Len(Cmds) :
                      Cmds[i].what = "stop" => i = 1 /\ HasLog("info", 79)
                /\ (awaited.op = "stop" => pc = "cast_wait" /\ step = 1)
                /\ sweepSleeps = 0
                /\ pc \notin {"out_for", "stop_spawn", "stop_wait"}))
    /\ [][(branch' # branch \/ now' # now) => pc = "loop"]_vars

\* C19 witness: in an outside-window cycle the last device's stop is awaited
\* after an earlier device was stopped.
C19_Witness ==
    /\ branch = "outside"
    /\ pc = "stop_wait"
    /\ idx = NumDevices
    /\ ha_cast_active
    /\ awaited.op = "stop"

====
